---- MODULE Spec2Model ----
(***************************************************************************)
(* Model of uptime-bot.py: one linear run that resolves the account        *)
(* "altbot", lists its recent statuses, loads the localized altTextError   *)
(* messages, counts the matches, decides on a message and posts it.        *)
(*                                                                         *)
(* Python strings are sequences of one-character strings;                  *)
(* a JSON value that is a string is [str |-> chars], a JSON list of        *)
(* strings is [list |-> <<chars, ...>>], a JSON object is a record.        *)
(***************************************************************************)
EXTENDS Integers, Sequences, FiniteSets

(* ---------------------------- bounds ----------------------------------- *)
MaxStatuses == 2
MaxThreshold == 2
MaxLocales == 2

AccountIds == {7}
ModsChoices == {<< >>, <<"@", "m">>}
LocaleCodes == <<"en", "de", "fr", "es">>

VARIABLES
    pc,                  \* position of the run in the module body
    test,                \* line 15
    number_of_statuses,  \* line 16
    threshold_of_errors, \* line 17
    mods,                \* line 11
    altbot_id,           \* line 23
    requested_id,        \* the id= argument of the account_statuses call
    altbot_statuses,     \* line 24
    localizations,       \* line 27, the items of the dict in file order
    error_responses,     \* line 31
    i,                   \* loop variable of line 35
    error_count,         \* line 34
    status,              \* lines 42 / 44
    post_calls,          \* the status_post calls made so far
    failure,             \* the exception that ended the run, or "none"
    failed_at,           \* the step at which it was raised, or "none"
    history              \* the steps executed so far, in order

vars == <<pc, test, number_of_statuses, threshold_of_errors, mods, altbot_id,
          requested_id, altbot_statuses, localizations, error_responses, i,
          error_count, status, post_calls, failure, failed_at, history>>

config == <<test, number_of_statuses, threshold_of_errors, mods>>

(* ---------------------------- values ----------------------------------- *)
\* Rendered contents of statuses: without a phrase, with one, with several.
Contents == {<< >>, <<"a">>, <<"b">>, <<"a", "b">>, <<"b", "a", "b">>}

\* altTextError messages, and lists of them.
Phrases == {<<"a">>, <<"b">>, <<"a", "b">>}

PhraseLists == {<< <<"a">> >>, << <<"a">>, <<"b">> >>}

AltTextErrorValues == {[str |-> p] : p \in Phrases} \cup {[list |-> l] : l \in PhraseLists}

LocaleRecords ==
    {[commands |-> [help |-> [str |-> <<"a">>]]]} \cup
    {[responses |-> [noAltText |-> [str |-> <<"a">>]]]} \cup
    {[responses |-> [altTextError |-> v]] : v \in AltTextErrorValues}

Tables ==
    UNION {{[k \in 1..n |-> [key |-> LocaleCodes[k], val |-> f[k]]] : f \in [1..n -> LocaleRecords]}
           : n \in 0..MaxLocales}

Statuses(n) == UNION {[1..k -> {[content |-> c] : c \in Contents}] : k \in 0..n}

(* ---------------------------- literals --------------------------------- *)
\* "@altbot is throwing errors.\n Pinging "
AlertSentence ==
    <<"@", "a", "l", "t", "b", "o", "t", " ", "i", "s", " ", "t", "h", "r",
      "o", "w", "i", "n", "g", " ", "e", "r", "r", "o", "r", "s", ".", "\n",
      " ", "P", "i", "n", "g", "i", "n", "g", " ">>

\* "All is fine"
AllIsFine == <<"A", "l", "l", " ", "i", "s", " ", "f", "i", "n", "e">>

SpoilerTesting == <<"t", "e", "s", "t", "i", "n", "g">>

(* ---------------------------- helpers ---------------------------------- *)
\* Python's  e in c  for two strings.
IsSubstring(e, c) ==
    \E k \in 0..(Len(c) - Len(e)) : SubSeq(c, k + 1, k + Len(e)) = e

\* Line 30: [val['responses'] for key, val in localizations.items() if 'responses' in val]
RECURSIVE Responses(_)
Responses(items) ==
    IF items = << >> THEN << >>
    ELSE (IF "responses" \in DOMAIN Head(items).val
          THEN <<Head(items).val["responses"]>> ELSE << >>)
         \o Responses(Tail(items))

\* Mutant of ErrorResponses: the comprehension stops at the first mapping
\* that lacks the field instead of skipping it.
RECURSIVE ErrorResponsesStopAtMissing(_)
ErrorResponsesStopAtMissing(responses) ==
    IF responses = << >> THEN << >>
    ELSE IF "altTextError" \in DOMAIN Head(responses)
         THEN <<Head(responses)["altTextError"]>>
              \o ErrorResponsesStopAtMissing(Tail(responses))
         ELSE << >>

\* Line 31: [val['altTextError'] for val in responses if 'altTextError' in val]
RECURSIVE ErrorResponses(_)
ErrorResponses(responses) ==
    IF responses = << >> THEN << >>
    ELSE (IF "altTextError" \in DOMAIN Head(responses)
          THEN <<Head(responses)["altTextError"]>> ELSE << >>)
         \o ErrorResponses(Tail(responses))

IsStr(v) == "str" \in DOMAIN v

\* Lines 37-39 for one content: the value of error_count after the inner
\* loop, or the exception the inner loop raises.  error in content  raises
\* TypeError when error is a list.
RECURSIVE InnerLoop(_, _, _)
InnerLoop(errors, content, count) ==
    IF errors = << >> THEN [raised |-> "none", count |-> count]
    ELSE IF ~IsStr(Head(errors)) THEN [raised |-> "TypeError", count |-> count]
    ELSE InnerLoop(Tail(errors), content,
                   IF IsSubstring(Head(errors).str, content) THEN count + 1 ELSE count)

\* Mutant of InRange: the loop stops one iteration early.
InRangeOffByOne(k, n) == k < n - 1

\* Line 35: the loop goes on while i is in range(number_of_statuses).
InRange(k, n) == k < n

\* Mutant of AlertCondition: strict comparison.
AlertConditionStrict(count, threshold) == count > threshold

\* Line 41
AlertCondition(count, threshold) == count >= threshold

\* Mutant of ComposeStatus: the two branches exchanged.
ComposeStatusSwapped(count, threshold, m) ==
    IF AlertCondition(count, threshold) THEN AllIsFine ELSE AlertSentence \o m

\* Lines 41-44
ComposeStatus(count, threshold, m) ==
    IF AlertCondition(count, threshold) THEN AlertSentence \o m ELSE AllIsFine

\* Mutant of PostCalls: the else is missing, so test mode posts twice.
PostCallsNoElse(t, s) ==
    IF t THEN <<[status |-> s, kwargs |-> [spoiler_text |-> SpoilerTesting]],
                [status |-> s, kwargs |-> << >>]>>
    ELSE <<[status |-> s, kwargs |-> << >>]>>

\* Mutant of PostCalls: the annotation is attached whatever the flag is.
PostCallsAlwaysSpoiler(t, s) ==
    <<[status |-> s, kwargs |-> [spoiler_text |-> SpoilerTesting]]>>

\* Lines 47-50: the status_post calls of the final if/else.
PostCalls(t, s) ==
    IF t THEN <<[status |-> s, kwargs |-> [spoiler_text |-> SpoilerTesting]]>>
    ELSE <<[status |-> s, kwargs |-> << >>]>>

\* Mutant of Propagate: the exception is swallowed and the run goes on.
PropagateSwallowed(step) ==
    CASE step = "lookup" -> "fetch"
      [] step = "fetch" -> "load"
      [] step = "load" -> "match"
      [] step = "match" -> "post"
      [] OTHER -> "done"

\* No statement of the module body is inside a try: an exception raised at
\* any step ends the run.
Propagate(step) == "failed"

(* ---------------------------- the run ---------------------------------- *)
Init ==
    /\ pc = "lookup"
    /\ test \in BOOLEAN
    /\ number_of_statuses \in 0..MaxStatuses
    /\ threshold_of_errors \in 0..MaxThreshold
    /\ mods \in ModsChoices
    /\ altbot_id = 0
    /\ requested_id = 0
    /\ altbot_statuses = << >>
    /\ localizations = << >>
    /\ error_responses = << >>
    /\ i = 0
    /\ error_count = 0
    /\ status = << >>
    /\ post_calls = << >>
    /\ failure = "none"
    /\ failed_at = "none"
    /\ history = << >>

Fail(step, exc) ==
    /\ pc' = Propagate(step)
    /\ failure' = exc
    /\ failed_at' = step

\* Line 23: mastodon.account_lookup(acct='altbot')['id']
Lookup ==
    /\ pc = "lookup"
    /\ history' = Append(history, "lookup")
    /\ \/ /\ \E id \in AccountIds : altbot_id' = id
          /\ pc' = "fetch"
          /\ UNCHANGED <<failure, failed_at>>
       \/ /\ \E exc \in {"LookupError", "TransportError"} : Fail("lookup", exc)
          /\ UNCHANGED altbot_id
    /\ UNCHANGED <<config, requested_id, altbot_statuses, localizations,
                   error_responses, i, error_count, status, post_calls>>

\* Line 24: mastodon.account_statuses(id=altbot_id, limit=number_of_statuses)
Fetch ==
    /\ pc = "fetch"
    /\ history' = Append(history, "fetch")
    /\ requested_id' = altbot_id
    /\ \/ /\ \E s \in Statuses(number_of_statuses) : altbot_statuses' = s
          /\ pc' = "load"
          /\ UNCHANGED <<failure, failed_at>>
       \/ /\ Fail("fetch", "TransportError")
          /\ UNCHANGED altbot_statuses
    /\ UNCHANGED <<config, altbot_id, localizations, error_responses, i,
                   error_count, status, post_calls>>

\* Lines 27-34: json.load, the two comprehensions, error_count = 0
Load ==
    /\ pc = "load"
    /\ history' = Append(history, "load")
    /\ \/ /\ \E t \in Tables :
                /\ localizations' = t
                /\ error_responses' = ErrorResponses(Responses(t))
          /\ error_count' = 0
          /\ i' = 0
          /\ pc' = "match"
          /\ UNCHANGED <<failure, failed_at>>
       \/ /\ \E exc \in {"FileNotFoundError", "JSONDecodeError"} : Fail("load", exc)
          /\ UNCHANGED <<localizations, error_responses, error_count, i>>
    /\ UNCHANGED <<config, altbot_id, requested_id, altbot_statuses, status,
                   post_calls>>

\* Lines 35-39: one iteration of the outer loop.  i counts from 0 as in the
\* source; altbot_statuses[i] is element i + 1 of the sequence.
Match ==
    /\ pc = "match"
    /\ InRange(i, number_of_statuses)
    /\ history' = Append(history, "match")
    /\ IF i + 1 > Len(altbot_statuses)
       THEN /\ Fail("match", "IndexError")
            /\ UNCHANGED <<i, error_count>>
       ELSE LET r == InnerLoop(error_responses, altbot_statuses[i + 1].content,
                               error_count)
            IN  /\ error_count' = r.count
                /\ IF r.raised = "none"
                   THEN /\ i' = i + 1
                        /\ UNCHANGED <<pc, failure, failed_at>>
                   ELSE /\ Fail("match", r.raised)
                        /\ UNCHANGED i
    /\ UNCHANGED <<config, altbot_id, requested_id, altbot_statuses,
                   localizations, error_responses, status, post_calls>>

\* Lines 41-44, entered when the loop of line 35 is exhausted.
Decide ==
    /\ pc = "match"
    /\ ~InRange(i, number_of_statuses)
    /\ history' = Append(history, "decide")
    /\ status' = ComposeStatus(error_count, threshold_of_errors, mods)
    /\ pc' = "post"
    /\ UNCHANGED <<config, altbot_id, requested_id, altbot_statuses,
                   localizations, error_responses, i, error_count, post_calls,
                   failure, failed_at>>

\* Lines 47-50: the call is made; it returns or raises.
Post ==
    /\ pc = "post"
    /\ history' = Append(history, "post")
    /\ post_calls' = post_calls \o PostCalls(test, status)
    /\ \/ /\ pc' = "done"
          /\ UNCHANGED <<failure, failed_at>>
       \/ Fail("post", "TransportError")
    /\ UNCHANGED <<config, altbot_id, requested_id, altbot_statuses,
                   localizations, error_responses, i, error_count, status>>

Next == Lookup \/ Fetch \/ Load \/ Match \/ Decide \/ Post

Spec == Init /\ [][Next]_vars

(* ---------------------------- properties ------------------------------- *)
AfterLoad == pc \in {"match", "post", "done"} \/ failed_at \in {"match", "post"}

Decided == pc \in {"post", "done"} \/ failed_at = "post"

\* A content contains at least one of the extracted phrases.
ContainsPhrase(content) ==
    \E j \in DOMAIN error_responses :
        /\ IsStr(error_responses[j])
        /\ IsSubstring(error_responses[j].str, content)

MatchingStatuses ==
    {k \in DOMAIN altbot_statuses : ContainsPhrase(altbot_statuses[k].content)}

\* C1: once the loop has finished, the match count is the number of
\* statuses whose content contains at least one phrase (a status that
\* contains several phrases counts once).
C1_CountIsMatchingStatuses ==
    Decided => error_count = Cardinality(MatchingStatuses)

\* C2: a listing shorter than number_of_statuses never leads to an
\* out-of-range failure.
C2_NoOutOfRange ==
    AfterLoad /\ Len(altbot_statuses) < number_of_statuses
        => failure # "IndexError"

\* C8: a list-valued altTextError never makes the run fail on the
\* substring test.
C8_ListValueAccepted ==
    AfterLoad /\ (\E j \in DOMAIN error_responses : ~IsStr(error_responses[j]))
        => failure # "TypeError"

\* C3: count >= threshold gives the alert sentence directly followed by
\* mods, anything else gives exactly "All is fine".
C3_Decision ==
    Decided =>
        IF error_count >= threshold_of_errors
        THEN /\ Len(status) = Len(AlertSentence) + Len(mods)
             /\ SubSeq(status, 1, Len(AlertSentence)) = AlertSentence
             /\ SubSeq(status, Len(AlertSentence) + 1, Len(status)) = mods
        ELSE status = AllIsFine

C3_Witness ==
    /\ pc = "done"
    /\ error_count = threshold_of_errors
    /\ threshold_of_errors > 0
    /\ mods # << >>

\* C4: at most one status_post call is ever made, and a completed run has
\* made exactly one.
C4_OnePost ==
    /\ Len(post_calls) <= 1
    /\ pc = "done" => Len(post_calls) = 1

C4_Witness ==
    /\ pc = "done"
    /\ test
    /\ Len(post_calls) = 1
    /\ error_count >= threshold_of_errors

\* C5: the spoiler text of a post is "testing" exactly when test is set,
\* and the text posted is the composed message, which does not depend on
\* test.
C5_Annotation ==
    \A k \in DOMAIN post_calls :
        /\ test => /\ DOMAIN post_calls[k].kwargs = {"spoiler_text"}
                   /\ post_calls[k].kwargs.spoiler_text = SpoilerTesting
        /\ ~test => DOMAIN post_calls[k].kwargs = {}
        /\ post_calls[k].status =
               IF error_count >= threshold_of_errors
               THEN AlertSentence \o mods ELSE AllIsFine

C5_Witness ==
    /\ pc = "done"
    /\ ~test
    /\ Len(post_calls) = 1
    /\ error_count < threshold_of_errors

\* The records of the table that have "responses" with "altTextError".
Qualifying ==
    {k \in DOMAIN localizations :
        /\ "responses" \in DOMAIN localizations[k].val
        /\ "altTextError" \in DOMAIN localizations[k].val.responses}

\* C6: error_responses holds the altTextError value of every qualifying
\* record, once per record, and nothing else.
C6_ExtractExact ==
    AfterLoad =>
        /\ Len(error_responses) = Cardinality(Qualifying)
        /\ \A v \in AltTextErrorValues :
              Cardinality({j \in DOMAIN error_responses : error_responses[j] = v})
              = Cardinality({k \in Qualifying :
                                localizations[k].val.responses.altTextError = v})

C6_Witness ==
    /\ pc = "match"
    /\ Len(localizations) = 2
    /\ Qualifying = {2}
    /\ "responses" \in DOMAIN localizations[1].val
    /\ Len(error_responses) = 1

\* C7: an exception at any step ends the run there: nothing is executed
\* after it, and a failure before the post means no post is ever made.
C7_FailureIsFatal ==
    /\ [](/\ (pc = "failed") <=> (failure # "none")
          /\ failure # "none" => history[Len(history)] = failed_at
          /\ failed_at \in {"lookup", "fetch", "load", "match"} => post_calls = << >>)
    /\ [][pc = "failed" => UNCHANGED vars]_vars

C7_Witness ==
    /\ pc = "failed"
    /\ failed_at = "load"
    /\ failure = "FileNotFoundError"

MatchesDone == Cardinality({k \in DOMAIN history : history[k] = "match"})

ExpectedOrder ==
    <<"lookup", "fetch", "load">> \o [k \in 1..MatchesDone |-> "match"]
        \o <<"decide", "post">>

\* C9: the steps run in the one order lookup, fetch, load, match...,
\* decide, post; the listing uses the resolved id; the decision comes
\* after every status has been visited.
C9_LinearOrder ==
    /\ Len(history) <= Len(ExpectedOrder)
    /\ history = SubSeq(ExpectedOrder, 1, Len(history))
    /\ MatchesDone <= number_of_statuses
    /\ Len(history) >= 2 => requested_id = altbot_id /\ altbot_id \in AccountIds
    /\ (\E k \in DOMAIN history : history[k] = "decide") =>
           /\ MatchesDone = number_of_statuses
           /\ MatchesDone = Len(altbot_statuses)

C9_Witness ==
    /\ pc = "done"
    /\ number_of_statuses >= 2
    /\ Len(history) = 5 + number_of_statuses

\* C10: with no extracted phrase and a listing of the configured length
\* the loop does not fail, the count stays 0, and a threshold of at least
\* 1 gives "All is fine", which is what a completed run has posted.
C10_EmptyPhrases ==
    AfterLoad /\ error_responses = << >>
              /\ Len(altbot_statuses) = number_of_statuses =>
        /\ error_count = 0
        /\ failed_at # "match"
        /\ Decided /\ threshold_of_errors >= 1 => status = AllIsFine
        /\ pc = "done" /\ threshold_of_errors >= 1 =>
               /\ Len(post_calls) = 1
               /\ post_calls[1].status = AllIsFine

C10_Witness ==
    /\ pc = "done"
    /\ error_responses = << >>
    /\ Len(localizations) >= 1
    /\ number_of_statuses >= 1
    /\ threshold_of_errors >= 1

====
